---- MODULE Spec2Model ----
(***************************************************************************)
(* Model of GUI/TranscriptionSystem.tsx: the connection manager (two       *)
(* WebSockets, reconnect counter, reconnect timers, polling fallback), the *)
(* transcription-message dispatcher and the microphone capture session of  *)
(* the TranscriptionSystem component, together with the stub route         *)
(* GET /api/transcripts that the polling loop reads.                       *)
(*                                                                         *)
(* The component's handlers are reached from the mount effect, whose       *)
(* dependency list is empty: connectWebSocket, handleWebSocketClose,       *)
(* startPolling and the cleanup's stopAudioStream are the closures of the  *)
(* first render and read the state values of that render (EffectClosure).  *)
(* Refs (socketRef, audioSocketRef, reconnectAttemptsRef) are shared.      *)
(***************************************************************************)
EXTENDS Integers, Sequences, FiniteSets, TLC

VARIABLES
    phase,              \* "rendered" (before the mount effect), "mounted", "unmounted"
    pageProtocol,       \* window.location.protocol
    isSecure,           \* useState(false)
    connectionStatus,   \* useState('disconnected')
    reconnectAttempts,  \* reconnectAttemptsRef.current
    sockets,            \* every WebSocket created so far, in creation order
    socketRef,          \* socketRef.current: index into sockets, 0 = null
    audioSocketRef,     \* audioSocketRef.current: index into sockets, 0 = null
    reconnectTimers,    \* pending setTimeout(connectWebSocket, 3000) callbacks
    pollIntervals,      \* active setInterval callbacks of startPolling
    fetchesInFlight,    \* GET /api/transcripts requests awaiting their response
    transcripts,        \* useState<Transcript[]>([])
    received,           \* history: every payload dispatched or polled, in receipt order
    uncaught,           \* an exception has escaped handleTranscriptionMessage
    toast,              \* title of the last toast shown, "none" before the first
    audioStream,        \* useState<MediaStream | null>(null): index into streams, 0 = null
    streams,            \* every MediaStream acquired: "live" or "stopped" tracks
    isRecording,        \* useState(false)
    mediaRequests,      \* getUserMedia calls awaiting the user's answer
    sent,               \* control messages handed to sendMessage, with the path taken
    postsInFlight,      \* POST /api/send-message requests awaiting their response
    inputType,          \* useState<string>('microphone')
    streamUrl,          \* useState<string>('')
    toastCount,         \* toasts shown so far, counted up to MaxToasts
    recorders,          \* the MediaRecorder of each stream: "recording", "flushing", "inactive"
    chunkLog,           \* history: every dataavailable event, with the socket state it met
    audioSent,          \* audio chunks sent over a socket, in order
    objectUrls          \* every URL.createObjectURL result: "playing", "held" or "revoked"

pageVars == <<phase, pageProtocol, isSecure>>
connVars == <<connectionStatus, reconnectAttempts, sockets, socketRef, audioSocketRef,
              reconnectTimers, pollIntervals>>
logVars  == <<transcripts, received, uncaught>>
capVars  == <<audioStream, streams, isRecording, mediaRequests, sent, postsInFlight,
              recorders>>
uiVars   == <<inputType, streamUrl>>
audioVars == <<chunkLog, audioSent, objectUrls>>
vars     == <<pageVars, connVars, fetchesInFlight, logVars, toast, toastCount, capVars,
              uiVars, audioVars>>

---------------------------------------------------------------------------
(* Bounds of the model *)

\* connectWebSocket invocations allowed in Spec (the code has no such limit).
MaxConnects == 4
\* Poll requests in flight at once.
MaxInFlight == 1
\* Payloads dispatched or polled in one run.
MaxMsgs == 2
\* Date.now() returns a value in 1..MaxTime.
MaxTime == 2
\* getUserMedia calls in one run.
MaxStreams == 2
\* Toasts counted: toastCount stays at MaxToasts from then on.
MaxToasts == 2
\* dataavailable events in one run.
MaxChunks == 2
\* Messages on the audio sockets in one run.
MaxAudio == 2
\* Control messages handed to sendMessage in one run of the stream controls.
MaxSent == 2

---------------------------------------------------------------------------
(* Program constants *)

maxReconnectAttempts == 5

\* The state values the first render's closures captured (useState initial values).
EffectClosure ==
    [isSecure |-> FALSE, connectionStatus |-> "disconnected", audioStream |-> 0]

---------------------------------------------------------------------------
(* JSON texts and values.  A text is what travels on the wire; JSON.parse  *)
(* turns it into a value or throws; JSON.stringify turns a value back.     *)

Undefined == [k |-> "undefined", b |-> FALSE, s |-> "", items |-> <<>>]
JBool(v)  == [k |-> "bool", b |-> v, s |-> "", items |-> <<>>]
JStr(v)   == [k |-> "str", b |-> FALSE, s |-> v, items |-> <<>>]
JArr(xs)  == [k |-> "arr", b |-> FALSE, s |-> "", items |-> xs]

\* Array entries: a segment object {text: t}, or a string t.
Seg(t) == [k |-> "obj", text |-> t]
Str(t) == [k |-> "str", text |-> t]

Member(key, val) == [key |-> key, val |-> val]

InvalidText      == [syntax |-> "invalid", members |-> <<>>, len |-> 0]
NullText         == [syntax |-> "null", members |-> <<>>, len |-> 0]
ArrayText(n)     == [syntax |-> "array", members |-> <<>>, len |-> n]
ObjectText(mems) == [syntax |-> "object", members |-> mems, len |-> 0]

\* obj[key] = val on an object whose properties are kept in insertion order.
RECURSIVE SetProp(_, _, _)
SetProp(props, key, val) ==
    IF props = <<>> THEN <<Member(key, val)>>
    ELSE IF Head(props).key = key THEN <<Member(key, val)>> \o Tail(props)
    ELSE <<Head(props)>> \o SetProp(Tail(props), key, val)

\* The properties of a parsed object: a repeated key keeps its last value.
RECURSIVE ParseMembers(_)
ParseMembers(members) ==
    IF members = <<>> THEN <<>>
    ELSE LET n == Len(members)
         IN  SetProp(ParseMembers(SubSeq(members, 1, n - 1)),
                     members[n].key, members[n].val)

JSONparse(text) ==
    IF text.syntax = "invalid"
    THEN [exc |-> "SyntaxError", data |-> [k |-> "null", props |-> <<>>, len |-> 0]]
    ELSE [exc |-> "none",
          data |-> [k |-> text.syntax, props |-> ParseMembers(text.members),
                    len |-> text.len]]

JSONstringify(data) ==
    [syntax |-> data.k, members |-> data.props, len |-> data.len]

\* data[key] for a non-null value: undefined when the property is absent.
Get(data, key) ==
    LET idx == {i \in 1..Len(data.props) : data.props[i].key = key}
    IN  IF idx = {} THEN Undefined ELSE data.props[CHOOSE i \in idx : TRUE].val

Truthy(v) ==
    CASE v.k = "undefined" -> FALSE
      [] v.k = "bool"      -> v.b
      [] v.k = "str"       -> v.s # ""
      [] OTHER             -> TRUE

---------------------------------------------------------------------------
(* Message dispatcher *)

Transcript(type, content, timestamp) ==
    [type |-> type, content |-> content, timestamp |-> timestamp]

\* seg.text
SegText(seg) == IF seg.k = "obj" THEN seg.text ELSE "undefined"

\* data.segments.forEach(seg => setTranscripts(prev => [...prev, {unrevised}]))
RECURSIVE SegmentRecords(_, _)
SegmentRecords(items, timestamp) ==
    IF items = <<>> THEN <<>>
    ELSE <<Transcript("unrevised", SegText(Head(items)), timestamp)>>
         \o SegmentRecords(Tail(items), timestamp)

\* Faulty variant of OutputType: the eos flag is ignored.
OutputType_always_revised(eos) == "revised"

\* data.eos ? 'voice' : 'revised'
OutputType(eos) == IF Truthy(eos) THEN "voice" ELSE "revised"

\* data.llm_output.forEach(out => setTranscripts(prev => [...prev, {voice|revised}]))
RECURSIVE OutputRecords(_, _, _)
OutputRecords(items, eos, timestamp) ==
    IF items = <<>> THEN <<>>
    ELSE <<Transcript(OutputType(eos), Head(items).text, timestamp)>>
         \o OutputRecords(Tail(items), eos, timestamp)

\* The try block of handleTranscriptionMessage: the records appended before it
\* completes or throws, and the exception thrown ("none" when it completes).
TryDispatch(text, timestamp) ==
    LET parsed == JSONparse(text)
        data   == parsed.data
    IN  IF parsed.exc # "none" THEN [records |-> <<>>, exc |-> parsed.exc]
        ELSE IF data.k = "null" THEN [records |-> <<>>, exc |-> "TypeError"]
        ELSE
          LET segments == Get(data, "segments")
              outputs  == Get(data, "llm_output")
              segRecs  == IF Truthy(segments) /\ segments.k = "arr"
                          THEN SegmentRecords(segments.items, timestamp) ELSE <<>>
              segExc   == Truthy(segments) /\ segments.k # "arr"
              outRecs  == IF Truthy(outputs) /\ outputs.k = "arr"
                          THEN OutputRecords(outputs.items, Get(data, "eos"), timestamp)
                          ELSE <<>>
              outExc   == Truthy(outputs) /\ outputs.k # "arr"
          IN  IF segExc THEN [records |-> <<>>, exc |-> "TypeError"]
              ELSE IF outExc THEN [records |-> segRecs, exc |-> "TypeError"]
              ELSE [records |-> segRecs \o outRecs, exc |-> "none"]

\* Faulty variant of handleTranscriptionMessage: no catch clause.
handleTranscriptionMessage_no_catch(text, timestamp) ==
    LET r == TryDispatch(text, timestamp)
    IN  [records |-> r.records, logged |-> FALSE, thrown |-> r.exc # "none"]

\* handleTranscriptionMessage: the catch clause logs every exception and
\* swallows it.
handleTranscriptionMessage(text, timestamp) ==
    LET r == TryDispatch(text, timestamp)
    IN  [records |-> r.records, logged |-> r.exc # "none", thrown |-> FALSE]

---------------------------------------------------------------------------
(* Connection manager *)

Init ==
    /\ phase = "rendered"
    /\ pageProtocol \in {"http:", "https:"}
    /\ isSecure = FALSE
    /\ connectionStatus = "disconnected"
    /\ reconnectAttempts = 0
    /\ sockets = <<>>
    /\ socketRef = 0
    /\ audioSocketRef = 0
    /\ reconnectTimers = 0
    /\ pollIntervals = 0
    /\ fetchesInFlight = 0
    /\ transcripts = <<>>
    /\ received = <<>>
    /\ uncaught = FALSE
    /\ toast = "none"
    /\ audioStream = 0
    /\ streams = <<>>
    /\ isRecording = FALSE
    /\ mediaRequests = 0
    /\ sent = <<>>
    /\ postsInFlight = 0
    /\ inputType = "microphone"
    /\ streamUrl = ""
    /\ toastCount = 0
    /\ recorders = <<>>
    /\ chunkLog = <<>>
    /\ audioSent = <<>>
    /\ objectUrls = <<>>

\* toast({...}): the toast shown replaces the one before it.
ShowToast(title) ==
    /\ toast' = title
    /\ toastCount' = IF toastCount < MaxToasts THEN toastCount + 1 ELSE toastCount

\* const wsProtocol = isSecure ? 'wss://' : 'ws://'
wsProtocol(secure) == IF secure THEN "wss://" ELSE "ws://"

\* new WebSocket(`${wsProtocol}${host}${path}`)
WebSocket(channel, scheme, path) ==
    [channel |-> channel, url |-> <<scheme, "host", path>>, readyState |-> "CONNECTING"]

\* connectWebSocket, as the closure of the first render: both sockets are
\* created anew and the refs overwritten; the sockets the refs held before
\* are neither closed nor detached from their handlers.
connectWebSocket ==
    /\ connectionStatus' = "connecting"
    /\ sockets' = sockets \o
         << WebSocket("transcription", wsProtocol(EffectClosure.isSecure), "/api/transcription"),
            WebSocket("tts", wsProtocol(EffectClosure.isSecure), "/api/tts") >>
    /\ socketRef' = Len(sockets) + 1
    /\ audioSocketRef' = Len(sockets) + 2

\* stopAudioStream of the render whose audioStream value is `stream`.
stopAudioStream(stream) ==
    IF stream # 0
    THEN /\ streams' = [streams EXCEPT ![stream] = "stopped"]
         /\ recorders' = [recorders EXCEPT ![stream] =
                             IF @ = "recording" THEN "flushing" ELSE @]
         /\ audioStream' = 0
    ELSE UNCHANGED <<streams, recorders, audioStream>>

\* WebSocket.close(): a socket that is connecting or open starts closing.
Closed(sock) ==
    IF sock.readyState \in {"CONNECTING", "OPEN"}
    THEN [sock EXCEPT !.readyState = "CLOSING"] ELSE sock

\* The mount effect: setIsSecure(protocol === 'https:'); connectWebSocket().
Mount ==
    /\ phase = "rendered"
    /\ phase' = "mounted"
    /\ isSecure' = (pageProtocol = "https:")
    /\ connectWebSocket
    /\ UNCHANGED <<pageProtocol, reconnectAttempts, reconnectTimers, pollIntervals,
                   fetchesInFlight, logVars, toast, toastCount, capVars,
                   uiVars, audioVars>>

\* The effect's cleanup: close the sockets the refs hold now, then the first
\* render's stopAudioStream.
Unmount ==
    /\ phase = "mounted"
    /\ phase' = "unmounted"
    /\ sockets' = [i \in 1..Len(sockets) |->
                     IF i \in {socketRef, audioSocketRef} THEN Closed(sockets[i])
                     ELSE sockets[i]]
    /\ stopAudioStream(EffectClosure.audioStream)
    /\ UNCHANGED <<pageProtocol, isSecure, connectionStatus, reconnectAttempts, socketRef,
                   audioSocketRef, reconnectTimers, pollIntervals, fetchesInFlight,
                   logVars, toast, toastCount, isRecording, mediaRequests, sent, postsInFlight,
                   uiVars, audioVars>>

\* A timer set by handleWebSocketClose expires: connectWebSocket().
ReconnectTimer ==
    /\ reconnectTimers > 0
    /\ reconnectTimers' = reconnectTimers - 1
    /\ connectWebSocket
    /\ UNCHANGED <<pageVars, reconnectAttempts, pollIntervals, fetchesInFlight, logVars,
                   toast, toastCount, capVars,
                   uiVars, audioVars>>

\* startPolling: the interval it sets is never cleared (the function it
\* returns is dropped by its caller).
startPolling ==
    /\ connectionStatus' = "polling"
    /\ pollIntervals' = pollIntervals + 1

\* Faulty variant of handleWebSocketClose: the fallback starts one close early.
handleWebSocketClose_off_by_one ==
    IF reconnectAttempts < maxReconnectAttempts - 1
    THEN /\ connectionStatus' = "disconnected"
         /\ reconnectAttempts' = reconnectAttempts + 1
         /\ reconnectTimers' = reconnectTimers + 1
         /\ UNCHANGED pollIntervals
    ELSE /\ startPolling
         /\ UNCHANGED <<reconnectAttempts, reconnectTimers>>

\* Faulty variant of handleWebSocketClose: the else branch is missing.
handleWebSocketClose_no_fallback ==
    /\ connectionStatus' = "disconnected"
    /\ IF reconnectAttempts < maxReconnectAttempts
       THEN /\ reconnectAttempts' = reconnectAttempts + 1
            /\ reconnectTimers' = reconnectTimers + 1
       ELSE UNCHANGED <<reconnectAttempts, reconnectTimers>>
    /\ UNCHANGED pollIntervals

\* handleWebSocketClose, the onclose handler of both sockets.
handleWebSocketClose ==
    IF reconnectAttempts < maxReconnectAttempts
    THEN /\ connectionStatus' = "disconnected"
         /\ reconnectAttempts' = reconnectAttempts + 1
         /\ reconnectTimers' = reconnectTimers + 1
         /\ UNCHANGED pollIntervals
    ELSE /\ startPolling
         /\ UNCHANGED <<reconnectAttempts, reconnectTimers>>

\* The open event of socket s.  Only the transcription socket has an onopen
\* handler: status connected, counter reset, a toast.
SocketOpen(s) ==
    /\ sockets[s].readyState = "CONNECTING"
    /\ sockets' = [sockets EXCEPT ![s].readyState = "OPEN"]
    /\ IF sockets[s].channel = "transcription"
       THEN /\ connectionStatus' = "connected"
            /\ reconnectAttempts' = 0
            /\ ShowToast("Connected")
       ELSE UNCHANGED <<connectionStatus, reconnectAttempts, toast, toastCount>>
    /\ UNCHANGED <<pageVars, socketRef, audioSocketRef, reconnectTimers, pollIntervals,
                   fetchesInFlight, logVars, capVars,
                   uiVars, audioVars>>

\* A clean close of socket s: the close event alone.
SocketClose(s) ==
    /\ sockets[s].readyState \in {"OPEN", "CLOSING"}
    /\ sockets' = [sockets EXCEPT ![s].readyState = "CLOSED"]
    /\ handleWebSocketClose
    /\ UNCHANGED <<pageVars, socketRef, audioSocketRef, fetchesInFlight, logVars, toast, toastCount,
                   capVars,
                   uiVars, audioVars>>

\* Socket s fails: the error event (handleWebSocketError: status
\* disconnected, a toast) and then the close event, in one task.
SocketFail(s) ==
    /\ sockets[s].readyState \in {"CONNECTING", "OPEN", "CLOSING"}
    /\ sockets' = [sockets EXCEPT ![s].readyState = "CLOSED"]
    /\ ShowToast("Connection Error")
    /\ handleWebSocketClose
    /\ UNCHANGED <<pageVars, socketRef, audioSocketRef, fetchesInFlight, logVars, capVars,
                   uiVars, audioVars>>

---------------------------------------------------------------------------
(* Polling fallback *)

\* if (connectionStatus !== 'connected'), on the value startPolling captured.
PollFetches(status) == status # "connected"

\* One tick of an interval set by startPolling.
PollTick ==
    /\ pollIntervals > 0
    /\ IF PollFetches(EffectClosure.connectionStatus)
       THEN fetchesInFlight' = fetchesInFlight + 1
       ELSE UNCHANGED fetchesInFlight
    /\ UNCHANGED <<pageVars, connVars, logVars, toast, toastCount, capVars,
                   uiVars, audioVars>>

\* Faulty variant of PollGuard: llm_output is not looked at.
PollGuard_segments_only(data) == Truthy(Get(data, "segments"))

\* if (data.segments || data.llm_output)
PollGuard(data) == Truthy(Get(data, "segments")) \/ Truthy(Get(data, "llm_output"))

\* The promise chain of one poll on the response body: response.json(), the
\* guard, handleTranscriptionMessage on JSON.stringify(data); a rejection
\* anywhere in the chain reaches .catch, which shows the "Polling Error" toast.
PollChain(body, timestamp) ==
    LET parsed == JSONparse(body)
        data   == parsed.data
        none   == [records |-> <<>>, logged |-> FALSE, thrown |-> FALSE]
    IN  IF parsed.exc # "none" \/ data.k = "null"
        THEN [dispatch |-> none, rejected |-> TRUE]
        ELSE IF PollGuard(data)
        THEN [dispatch |-> handleTranscriptionMessage(JSONstringify(data), timestamp),
              rejected |-> FALSE]
        ELSE [dispatch |-> none, rejected |-> FALSE]

\* Faulty variant of setTranscripts: the new records replace the log.
setTranscripts_replace(prev, records) == records

\* setTranscripts(prev => [...prev, record]), once for each record of a
\* dispatch.
setTranscripts(prev, records) == prev \o records

Receipt(text, via) == [text |-> text, via |-> via]

\* The response of a poll request arrives with the given body.
PollResponse(body, timestamp) ==
    /\ fetchesInFlight > 0
    /\ fetchesInFlight' = fetchesInFlight - 1
    /\ LET r == PollChain(body, timestamp)
       IN  /\ transcripts' = setTranscripts(transcripts, r.dispatch.records)
           /\ uncaught' = (uncaught \/ r.dispatch.thrown)
           /\ IF r.rejected THEN ShowToast("Polling Error")
              ELSE UNCHANGED <<toast, toastCount>>
    /\ received' = Append(received, Receipt(body, "poll"))
    /\ UNCHANGED <<pageVars, connVars, capVars,
                   uiVars, audioVars>>

\* The poll request fails (fetch rejects): .catch shows the toast.
PollError ==
    /\ fetchesInFlight > 0
    /\ fetchesInFlight' = fetchesInFlight - 1
    /\ ShowToast("Polling Error")
    /\ UNCHANGED <<pageVars, connVars, logVars, capVars,
                   uiVars, audioVars>>

\* A message event on transcription socket s (onmessage = handleTranscriptionMessage).
OnMessage(s, text, timestamp) ==
    /\ sockets[s].channel = "transcription"
    /\ sockets[s].readyState = "OPEN"
    /\ LET r == handleTranscriptionMessage(text, timestamp)
       IN  /\ transcripts' = setTranscripts(transcripts, r.records)
           /\ uncaught' = (uncaught \/ r.thrown)
    /\ received' = Append(received, Receipt(text, "socket"))
    /\ UNCHANGED <<pageVars, connVars, fetchesInFlight, toast, toastCount, capVars,
                   uiVars, audioVars>>

\* GET /api/transcripts: the stub returns a fixed array of three entries.
StubBody == ArrayText(3)

Sockets == 1..Len(sockets)
Time == 1..MaxTime

---------------------------------------------------------------------------
(* The connection manager with the stub backend: no messages, no capture *)

Next ==
    \/ Mount
    \/ Unmount
    \/ (Len(sockets) < 2 * MaxConnects /\ ReconnectTimer)
    \/ \E s \in Sockets : SocketOpen(s)
    \/ \E s \in Sockets : SocketClose(s)
    \/ \E s \in Sockets : SocketFail(s)
    \/ (fetchesInFlight < MaxInFlight /\ PollTick)
    \/ \E t \in Time : (Len(received) < MaxMsgs /\ PollResponse(StubBody, t))
    \/ PollError

Spec == Init /\ [][Next]_vars

---------------------------------------------------------------------------
(* The backend is down: no socket ever opens and every poll request fails. *)
(* The code itself bounds this run: at most maxReconnectAttempts timers.   *)

\* The close event of socket s, after a failure or a clean close.
CloseEvent(s) == s \in Sockets /\ (SocketFail(s) \/ SocketClose(s))

NextRetry ==
    \/ Mount
    \/ Unmount
    \/ ReconnectTimer
    \/ \E s \in Sockets : CloseEvent(s)
    \/ (fetchesInFlight < MaxInFlight /\ PollTick)
    \/ PollError

SpecRetry == Init /\ [][NextRetry]_vars

\* The effect runs after the first render, a timer that is set expires, and
\* every socket that cannot connect gets its close event.
FairSpecRetry ==
    /\ SpecRetry
    /\ WF_vars(Mount)
    /\ WF_vars(ReconnectTimer)
    /\ \A s \in 1..(2 * (maxReconnectAttempts + 1)) : WF_vars(CloseEvent(s))

---------------------------------------------------------------------------
(* Capture controller *)

\* sendMessage: over the socket socketRef holds if it is open, else by
\* POST /api/send-message.
sendMessage(message) ==
    IF socketRef # 0 /\ sockets[socketRef].readyState = "OPEN"
    THEN /\ sent' = Append(sent, [via |-> "socket", message |-> message])
         /\ UNCHANGED postsInFlight
    ELSE /\ sent' = Append(sent, [via |-> "post", message |-> message])
         /\ postsInFlight' = postsInFlight + 1

\* The response of a POST /api/send-message: a toast unless it succeeded.
PostResponse(ok) ==
    /\ postsInFlight > 0
    /\ postsInFlight' = postsInFlight - 1
    /\ IF ok THEN UNCHANGED <<toast, toastCount>> ELSE ShowToast("Error")
    /\ UNCHANGED <<pageVars, connVars, fetchesInFlight, logVars, audioStream, streams, recorders,
                   isRecording, mediaRequests, sent,
                   uiVars, audioVars>>

\* A click on "Start Recording" (shown for the microphone input while
\* isRecording is false):
\* startRecording up to its await of getUserMedia.
StartRecordingClick ==
    /\ phase = "mounted"
    /\ inputType = "microphone"
    /\ ~isRecording
    /\ mediaRequests' = mediaRequests + 1
    /\ UNCHANGED <<pageVars, connVars, fetchesInFlight, logVars, toast, toastCount, audioStream,
                   streams, recorders, isRecording, sent, postsInFlight,
                   uiVars, audioVars>>

\* getUserMedia resolves: the rest of startRecording's try block.
MediaGranted ==
    /\ mediaRequests > 0
    /\ mediaRequests' = mediaRequests - 1
    /\ streams' = Append(streams, "live")
    /\ recorders' = Append(recorders, "recording")
    /\ audioStream' = Len(streams) + 1
    /\ isRecording' = TRUE
    /\ sendMessage("START_RECORDING")
    /\ UNCHANGED <<pageVars, connVars, fetchesInFlight, logVars, toast, toastCount,
                   uiVars, audioVars>>

\* Faulty variant of MediaDenied: the recording is announced before the
\* device is granted.
MediaDenied_after_start ==
    /\ mediaRequests > 0
    /\ mediaRequests' = mediaRequests - 1
    /\ isRecording' = TRUE
    /\ sendMessage("START_RECORDING")
    /\ ShowToast("Microphone Error")
    /\ UNCHANGED <<pageVars, connVars, fetchesInFlight, logVars, audioStream, streams, recorders,
                   uiVars, audioVars>>

\* getUserMedia rejects: startRecording's catch clause.
MediaDenied ==
    /\ mediaRequests > 0
    /\ mediaRequests' = mediaRequests - 1
    /\ ShowToast("Microphone Error")
    /\ UNCHANGED <<pageVars, connVars, fetchesInFlight, logVars, audioStream, streams, recorders,
                   isRecording, sent, postsInFlight,
                   uiVars, audioVars>>

\* A click on "Stop Recording" (shown while isRecording is true): stopRecording
\* of the current render.
StopRecordingClick ==
    /\ phase = "mounted"
    /\ inputType = "microphone"
    /\ isRecording
    /\ stopAudioStream(audioStream)
    /\ isRecording' = FALSE
    /\ sendMessage("STOP_RECORDING")
    /\ UNCHANGED <<pageVars, connVars, fetchesInFlight, logVars, toast, toastCount, mediaRequests,
                   uiVars, audioVars>>

\* The sizes of the chunks a MediaRecorder hands over.
ChunkSizes == {0, 1}

\* Faulty variant of ForwardChunk: the state of the socket is not looked at.
ForwardChunk_any_state(size, readyState) == size > 0

\* The condition of mediaRecorder.ondataavailable:
\* event.data.size > 0 && socketRef.current?.readyState === WebSocket.OPEN
ForwardChunk(size, readyState) == size > 0 /\ readyState = "OPEN"

\* socketRef.current?.readyState
CurrentReadyState == IF socketRef = 0 THEN "undefined" ELSE sockets[socketRef].readyState

\* mediaRecorder.ondataavailable of the recorder of stream i: a time slice of
\* a recording, or the last chunk of a recorder whose tracks were stopped.
\* chunkLog notes each chunk's size and the state of the socket at that moment.
ChunkAvailable(i, size) ==
    /\ recorders[i] \in {"recording", "flushing"}
    /\ recorders' = [recorders EXCEPT ![i] = IF @ = "flushing" THEN "inactive" ELSE @]
    /\ chunkLog' = Append(chunkLog, [size |-> size, readyState |-> CurrentReadyState])
    /\ audioSent' = IF ForwardChunk(size, CurrentReadyState)
                    THEN Append(audioSent, [chunk |-> Len(chunkLog) + 1, socket |-> socketRef])
                    ELSE audioSent
    /\ UNCHANGED <<pageVars, connVars, fetchesInFlight, logVars, toast, toastCount,
                   audioStream, streams, isRecording, mediaRequests, sent, postsInFlight,
                   uiVars, objectUrls>>

---------------------------------------------------------------------------
(* Stream controls *)

\* The input types the selector offers, and the URLs a user types.
InputTypes == {"microphone", "rtsp", "hls"}
StreamUrls == {"", "example.com/stream", "rtsp://cam/1"}

\* <Select onValueChange={setInputType}>
SetInputType(value) ==
    /\ phase = "mounted"
    /\ inputType' = value
    /\ UNCHANGED <<pageVars, connVars, fetchesInFlight, logVars, toast, toastCount, capVars,
                   streamUrl, audioVars>>

\* handleStreamUrlChange, the onChange of the URL input (shown for rtsp and hls).
handleStreamUrlChange(value) ==
    /\ phase = "mounted"
    /\ inputType \in {"rtsp", "hls"}
    /\ streamUrl' = value
    /\ UNCHANGED <<pageVars, connVars, fetchesInFlight, logVars, toast, toastCount, capVars,
                   inputType, audioVars>>

\* `START_STREAMING:${streamUrl}`
StartStreamingMessage(url) == "START_STREAMING:" \o url

\* Faulty variant of handleStartStreaming: the URL is not validated.
handleStartStreaming_unchecked ==
    /\ phase = "mounted"
    /\ inputType \in {"rtsp", "hls"}
    /\ sendMessage(StartStreamingMessage(streamUrl))
    /\ UNCHANGED <<toast, toastCount>>
    /\ UNCHANGED <<pageVars, connVars, fetchesInFlight, logVars, audioStream, streams,
                   isRecording, mediaRequests, recorders, uiVars, audioVars>>

\* handleStartStreaming, the onClick of "Start Streaming" (shown for rtsp and
\* hls), of the current render.
handleStartStreaming ==
    /\ phase = "mounted"
    /\ inputType \in {"rtsp", "hls"}
    /\ IF streamUrl = ""
       THEN /\ ShowToast("Error")
            /\ UNCHANGED <<sent, postsInFlight>>
       ELSE /\ sendMessage(StartStreamingMessage(streamUrl))
            /\ UNCHANGED <<toast, toastCount>>
    /\ UNCHANGED <<pageVars, connVars, fetchesInFlight, logVars, audioStream, streams,
                   isRecording, mediaRequests, recorders, uiVars, audioVars>>

---------------------------------------------------------------------------
(* Audio playback *)

\* audioRef.current: the <audio> element while the component is in the
\* document, null once it is unmounted.
audioRef == IF phase = "unmounted" THEN "null" ELSE "audio"

\* playAudio up to its await: with an audio element the URL becomes its src
\* and play() is pending; without one nothing is done with the URL.
playAudio == IF audioRef # "null" THEN "playing" ELSE "held"

\* handleAudioMessage, the onmessage of every audio socket: a Blob gets an
\* object URL that is handed to playAudio; any other payload is ignored.
\* objectUrls notes each URL created: "playing", "held" or "revoked".
handleAudioMessage(s, isBlob) ==
    /\ sockets[s].channel = "tts"
    /\ sockets[s].readyState = "OPEN"
    /\ objectUrls' = IF isBlob THEN Append(objectUrls, playAudio) ELSE objectUrls
    /\ UNCHANGED <<pageVars, connVars, fetchesInFlight, logVars, toast, toastCount, capVars,
                   uiVars, chunkLog, audioSent>>

\* audio.play() settles: playAudio's catch clause if it failed, then its
\* finally clause.
PlaySettles(k, ok) ==
    /\ objectUrls[k] = "playing"
    /\ objectUrls' = [objectUrls EXCEPT ![k] = "revoked"]
    /\ IF ok THEN UNCHANGED <<toast, toastCount>> ELSE ShowToast("Audio Error")
    /\ UNCHANGED <<pageVars, connVars, fetchesInFlight, logVars, capVars,
                   uiVars, chunkLog, audioSent>>

---------------------------------------------------------------------------
(* The payloads of the protocol, and the bodies the poll endpoint may send *)

SegmentsOnly == ObjectText(<< Member("segments", JArr(<<Seg("a")>>)) >>)
Interim ==
    ObjectText(<< Member("segments", JArr(<<Seg("a"), Seg("b")>>)),
                  Member("llm_output", JArr(<<Str("x")>>)),
                  Member("eos", JBool(FALSE)) >>)
Final ==
    ObjectText(<< Member("llm_output", JArr(<<Str("x"), Str("y")>>)),
                  Member("eos", JBool(TRUE)) >>)
OutputNoEos == ObjectText(<< Member("llm_output", JArr(<<Str("y")>>)) >>)
OutputFirst ==
    ObjectText(<< Member("eos", JBool(TRUE)),
                  Member("llm_output", JArr(<<Str("y")>>)),
                  Member("segments", JArr(<<Seg("b")>>)) >>)
EmptyLists ==
    ObjectText(<< Member("segments", JArr(<<>>)), Member("llm_output", JArr(<<>>)) >>)
RepeatedKey ==
    ObjectText(<< Member("llm_output", JArr(<<Str("x")>>)),
                  Member("segments", JArr(<<Seg("a")>>)),
                  Member("llm_output", JArr(<<Str("y")>>)) >>)
\* The body of the route's 500 answer, {error: ...}.
ErrorBody == ObjectText(<< Member("error", JStr("Internal Server Error")) >>)

Payloads ==
    {InvalidText, NullText, ObjectText(<<>>), SegmentsOnly, Interim, Final, OutputNoEos,
     OutputFirst, EmptyLists}

PollBodies ==
    {StubBody, ErrorBody, InvalidText, NullText, Interim, OutputNoEos, RepeatedKey}

---------------------------------------------------------------------------
(* The live channel: the sockets open and the backend sends payloads *)

NextDispatch ==
    \/ Mount
    \/ \E s \in Sockets : SocketOpen(s)
    \/ \E s \in Sockets, text \in Payloads, t \in Time :
          (Len(received) < MaxMsgs /\ OnMessage(s, text, t))

SpecDispatch == Init /\ [][NextDispatch]_vars

---------------------------------------------------------------------------
(* The sockets are refused one after the other, as by the repository's own *)
(* /api/transcription route, and the poll endpoint answers                  *)

NextPoll ==
    \/ Mount
    \/ ReconnectTimer
    \/ \E s \in Sockets :
          ((\A r \in 1..(s - 1) : sockets[r].readyState = "CLOSED") /\ SocketFail(s))
    \/ (fetchesInFlight < MaxInFlight /\ PollTick)
    \/ \E body \in PollBodies, t \in Time :
          (Len(received) < MaxMsgs /\ PollResponse(body, t))

SpecPoll == Init /\ [][NextPoll]_vars

---------------------------------------------------------------------------
(* A recording session on the mounted component *)

NextCapture ==
    \/ Mount
    \/ Unmount
    \/ \E s \in Sockets : SocketOpen(s)
    \/ (Len(streams) + mediaRequests < MaxStreams /\ StartRecordingClick)
    \/ MediaGranted
    \/ MediaDenied
    \/ StopRecordingClick
    \/ \E ok \in BOOLEAN : PostResponse(ok)

SpecCapture == Init /\ [][NextCapture]_vars

---------------------------------------------------------------------------
(* Dispatch: C1, C8, C9 *)

\* The displayed part of a log: kind and content of each record, in order.
Shown(log) == [i \in 1..Len(log) |-> [type |-> log[i].type, content |-> log[i].content]]

\* The entries of the list a payload carries under `key`: the last member of
\* that name of a JSON object, none for any other text.
Entries(text, key) ==
    LET named == {i \in 1..Len(text.members) : text.members[i].key = key}
        last  == CHOOSE i \in named : \A j \in named : j <= i
    IN  IF text.syntax # "object" \/ named = {} THEN <<>>
        ELSE text.members[last].val.items

EosSet(text) ==
    /\ text.syntax = "object"
    /\ \E i \in 1..Len(text.members) :
          /\ text.members[i].key = "eos"
          /\ text.members[i].val = JBool(TRUE)
          /\ \A j \in (i + 1)..Len(text.members) : text.members[j].key # "eos"

\* What C1 prescribes for one payload: a record per segment, then a record
\* per generated output.
ClaimedRecords(text) ==
    LET segs == Entries(text, "segments")
        outs == Entries(text, "llm_output")
    IN  [i \in 1..Len(segs) |-> [type |-> "unrevised", content |-> segs[i].text]]
        \o [i \in 1..Len(outs) |->
              [type |-> IF EosSet(text) THEN "voice" ELSE "revised",
               content |-> outs[i].text]]

RECURSIVE ClaimedLog(_)
ClaimedLog(history) ==
    IF history = <<>> THEN <<>>
    ELSE ClaimedLog(SubSeq(history, 1, Len(history) - 1))
         \o ClaimedRecords(history[Len(history)].text)

\* C1: the transcript log is, message by message in receipt order, one
\* unrevised record per segment followed by one record per llm_output entry,
\* voice if eos is set and revised otherwise; nothing is reordered, merged
\* or dropped.
C1_LogFollowsMessages == Shown(transcripts) = ClaimedLog(received)

\* C1 witness: two messages were dispatched and the log holds records of all
\* three kinds.
C1_Witness ==
    /\ Len(received) = 2
    /\ \A kind \in {"unrevised", "revised", "voice"} :
          \E i \in 1..Len(transcripts) : transcripts[i].type = kind

\* The log that dispatching each text of a history on the primary channel
\* builds.
RECURSIVE DispatchedLog(_)
DispatchedLog(history) ==
    IF history = <<>> THEN <<>>
    ELSE DispatchedLog(SubSeq(history, 1, Len(history) - 1))
         \o Shown(handleTranscriptionMessage(history[Len(history)].text, 1).records)

IsJson(receipt) == receipt.text.syntax # "invalid"

\* C8: a message that is not JSON leaves the log as it was and throws nothing
\* out of the dispatcher, and the messages after it are processed as if it
\* had not been sent.
C8_MalformedIsDropped ==
    /\ ~uncaught
    /\ Shown(transcripts) = DispatchedLog(SelectSeq(received, IsJson))

\* C8 witness: a malformed message was dispatched and a later message added
\* its records to the log.
C8_Witness ==
    /\ Len(received) = 2
    /\ received[1].text = InvalidText
    /\ Len(transcripts) > 0

\* C9: the bodies polled so far have added to the log exactly what the same
\* texts add when they arrive as messages on the primary channel.
C9_PollDispatchesLikeSocket ==
    /\ \A i \in 1..Len(received) : received[i].via = "poll"
    /\ Shown(transcripts) = DispatchedLog(received)

\* C9 witness: the stub's array and then an object with llm_output were
\* polled, and the object's records are in the log.
C9_Witness ==
    /\ Len(received) = 2
    /\ received[1].text = StubBody
    /\ received[2].text = OutputNoEos
    /\ Len(transcripts) = 1

---------------------------------------------------------------------------
(* Polling while live, teardown, transport security: C4, C5, C6, C7 *)

\* C4, as stated: while the status is connected no tick of a polling
\* interval issues a fetch.
C4_NoFetchWhileConnected ==
    [][connectionStatus = "connected" => fetchesInFlight' <= fetchesInFlight]_vars

\* C5, as stated: once the cleanup has run, no reconnect timer fires, no
\* polling interval ticks and no socket is created.
C5_NothingRunsAfterUnmount ==
    [][phase = "unmounted" =>
         /\ Len(sockets') = Len(sockets)
         /\ reconnectTimers' >= reconnectTimers
         /\ fetchesInFlight' <= fetchesInFlight]_vars

\* C6, as stated: the cleanup leaves every acquired MediaStream stopped.
C6_CleanupReleasesCapture ==
    [][(phase = "mounted" /\ phase' = "unmounted") =>
         \A i \in 1..Len(streams') : streams'[i] = "stopped"]_vars

\* C7, as stated: every socket uses wss:// exactly when the page was loaded
\* over https:.
C7_SecureIffHttps ==
    \A s \in Sockets : (sockets[s].url[1] = "wss://") <=> (pageProtocol = "https:")

---------------------------------------------------------------------------
(* Reconnect and fallback: C2, C3, C10 *)

\* Sockets whose close event has been handled, on either or on one channel.
ClosedSockets == {s \in Sockets : sockets[s].readyState = "CLOSED"}
ClosedCount == Cardinality(ClosedSockets)
PrimaryClosedCount ==
    Cardinality({s \in ClosedSockets : sockets[s].channel = "transcription"})
Min(a, b) == IF a < b THEN a ELSE b

C3_PollingIsPermanent ==
    [][pollIntervals > 0 =>
         (connectionStatus' = "polling" /\ Len(sockets') = Len(sockets))]_vars

\* C10: when no socket ever opens and close events and timers are delivered,
\* the status eventually is polling and stays polling, and no more than 5
\* reconnects (6 connectWebSocket calls, 12 sockets) are ever made.
C10_EventuallyPollingForGood ==
    /\ <>[](connectionStatus = "polling")
    /\ [](Len(sockets) <= 2 * (maxReconnectAttempts + 1))

\* C10 witness: all five reconnects were made, every socket has closed and
\* the status is polling.
C10_Witness ==
    /\ Len(sockets) = 2 * (maxReconnectAttempts + 1)
    /\ ClosedCount = Len(sockets)
    /\ reconnectTimers = 0
    /\ connectionStatus = "polling"


---------------------------------------------------------------------------
(* The stream controls on the mounted component *)

NextStreaming ==
    \/ Mount
    \/ \E s \in Sockets : SocketOpen(s)
    \/ \E value \in InputTypes : SetInputType(value)
    \/ \E value \in StreamUrls : handleStreamUrlChange(value)
    \/ (Len(sent) < MaxSent /\ handleStartStreaming)
    \/ \E ok \in BOOLEAN : PostResponse(ok)

SpecStreaming == Init /\ [][NextStreaming]_vars

\* One more toast has been shown (the count stops at MaxToasts).
OneMoreToast == toastCount' = IF toastCount < MaxToasts THEN toastCount + 1 ELSE toastCount

\* C11: Start Streaming with an empty URL shows an error toast, hands nothing
\* to the socket or to the POST fallback and changes nothing else; with a
\* non-empty URL u it hands over exactly one control message, START_STREAMING:
\* followed by u, on one of the two paths, and shows no toast.
C11_StartStreaming ==
    [][handleStartStreaming =>
         IF streamUrl = ""
         THEN /\ toast' = "Error"
              /\ OneMoreToast
              /\ UNCHANGED <<sent, postsInFlight, audioSent>>
              /\ UNCHANGED <<pageVars, connVars, fetchesInFlight, logVars, audioStream,
                             streams, isRecording, mediaRequests, recorders, uiVars,
                             chunkLog, objectUrls>>
         ELSE /\ Len(sent') = Len(sent) + 1
              /\ SubSeq(sent', 1, Len(sent)) = sent
              /\ streamUrl = "example.com/stream" =>
                    sent'[Len(sent')].message = "START_STREAMING:example.com/stream"
              /\ streamUrl = "rtsp://cam/1" =>
                    sent'[Len(sent')].message = "START_STREAMING:rtsp://cam/1"
              /\ postsInFlight' =
                    IF sent'[Len(sent')].via = "post" THEN postsInFlight + 1
                    ELSE postsInFlight
              /\ UNCHANGED <<toast, toastCount, audioSent>> ]_vars

\* C11 witness: an empty URL was refused with a toast, and later the URL
\* example.com/stream was sent over the open socket.
C11_Witness ==
    /\ toast = "Error"
    /\ toastCount = 2
    /\ sent = << [via |-> "socket", message |-> "START_STREAMING:example.com/stream"] >>


---------------------------------------------------------------------------
(* Microphone capture *)

\* C12: when getUserMedia rejects, startRecording leaves the connection
\* status, the recording flag (false stays false) and the stored capture
\* session as they were, acquires no stream, shows exactly one toast,
\* Microphone Error, and sends no control message on either path.
C12_DeniedIsOnlyAToast ==
    [][MediaDenied =>
         /\ connectionStatus' = connectionStatus
         /\ isRecording' = isRecording
         /\ ~isRecording => ~isRecording'
         /\ audioStream' = audioStream
         /\ streams' = streams
         /\ recorders' = recorders
         /\ toast' = "Microphone Error"
         /\ OneMoreToast
         /\ UNCHANGED <<sent, postsInFlight, audioSent>> ]_vars

\* C12 witness: the one request for the microphone was denied: one toast,
\* nothing recorded, nothing sent.
C12_Witness ==
    /\ phase = "mounted"
    /\ toast = "Microphone Error"
    /\ toastCount = 1
    /\ mediaRequests = 0
    /\ ~isRecording
    /\ audioStream = 0
    /\ streams = <<>>
    /\ sent = <<>>

\* C13, as stated: a stopRecording leaves the recording flag false and every
\* acquired stream stopped, and sends exactly one STOP_RECORDING.
C13_StopReleasesEveryStream ==
    [][StopRecordingClick =>
         /\ ~isRecording'
         /\ \A i \in 1..Len(streams') : streams'[i] = "stopped"
         /\ Len(sent') = Len(sent) + 1
         /\ sent'[Len(sent')].message = "STOP_RECORDING" ]_vars


---------------------------------------------------------------------------
(* Audio chunks of a recording, across reconnects *)

\* The reconnects and the recordings that chunks are followed across.
MaxChunkReconnects == 1
MaxChunkStreams == 1

NextChunks ==
    \/ Mount
    \/ (Len(sockets) < 2 * (MaxChunkReconnects + 1) /\ ReconnectTimer)
    \/ \E s \in Sockets : (s = socketRef /\ SocketOpen(s))
    \/ \E s \in Sockets : (s = socketRef /\ SocketFail(s))
    \/ (Len(streams) + mediaRequests < MaxChunkStreams /\ StartRecordingClick)
    \/ MediaGranted
    \/ StopRecordingClick
    \/ \E i \in 1..Len(recorders), size \in ChunkSizes :
          (Len(chunkLog) < MaxChunks /\ ChunkAvailable(i, size))

SpecChunks == Init /\ [][NextChunks]_vars

\* The chunks of a chunk log that were non-empty while the socket was open,
\* numbered as in the log.
RECURSIVE ChunksDue(_)
ChunksDue(log) ==
    IF log = <<>> THEN <<>>
    ELSE LET last == log[Len(log)]
             before == ChunksDue(SubSeq(log, 1, Len(log) - 1))
         IN  IF last.size > 0 /\ last.readyState = "OPEN"
             THEN Append(before, Len(log))
             ELSE before

ControlMessages ==
    {"START_RECORDING", "STOP_RECORDING",
     "START_STREAMING:example.com/stream", "START_STREAMING:rtsp://cam/1"}

\* C14: the chunks sent on the primary channel are, in order, exactly the
\* chunks that were non-empty while the socket in socketRef was open at the
\* moment they became available, each sent once on that socket; any other
\* chunk is never sent, neither later nor after a reconnect, and a chunk
\* never goes through the POST fallback.
C14_ChunkSentIffOpen ==
    /\ [](/\ [k \in 1..Len(audioSent) |-> audioSent[k].chunk] = ChunksDue(chunkLog)
          /\ \A k \in 1..Len(audioSent) : sockets[audioSent[k].socket].channel = "transcription"
          /\ \A k \in 1..Len(sent) : sent[k].message \in ControlMessages)
    /\ [][(chunkLog' # chunkLog) => UNCHANGED <<sent, postsInFlight>>]_vars

\* C14 witness: a non-empty chunk came while the first socket had failed and
\* was dropped; after the reconnect the next chunk went out on the new
\* socket, and the dropped one did not.
C14_Witness ==
    /\ Len(chunkLog) = 2
    /\ chunkLog[1].size > 0
    /\ chunkLog[1].readyState = "CLOSED"
    /\ audioSent = << [chunk |-> 2, socket |-> 3] >>
    /\ sockets[3].readyState = "OPEN"


---------------------------------------------------------------------------
(* Synthesized audio, across reconnects and teardown *)

NextAudio ==
    \/ Mount
    \/ Unmount
    \/ (Len(sockets) < 2 * MaxAudio /\ ReconnectTimer)
    \/ \E s \in Sockets : SocketOpen(s)
    \/ \E s \in Sockets : SocketClose(s)
    \/ \E s \in Sockets, isBlob \in BOOLEAN :
          (Len(objectUrls) < MaxAudio /\ handleAudioMessage(s, isBlob))
    \/ \E k \in 1..Len(objectUrls), ok \in BOOLEAN : PlaySettles(k, ok)

SpecAudio == Init /\ [][NextAudio]_vars

\* C15, as stated: every object URL created for an audio message goes through
\* a playback attempt that ends with its release; none is created and left
\* without one.
C15_EveryUrlIsReleased ==
    \A k \in 1..Len(objectUrls) : objectUrls[k] \in {"playing", "revoked"}


---------------------------------------------------------------------------
(* Failures of the REST fallbacks *)

\* The bodies of a 200 response, of a 500 response and of a response that is
\* not JSON.
RestBodies == {StubBody, ErrorBody, InvalidText}

\* The transcription endpoint leaves its sockets connecting; the tts endpoint
\* accepts connections and closes them. Once the ceiling is reached the
\* transcripts are polled, and control messages go by POST.
NextRest ==
    \/ Mount
    \/ ReconnectTimer
    \/ \E s \in Sockets : (sockets[s].channel = "tts" /\ SocketOpen(s))
    \/ \E s \in Sockets : (sockets[s].channel = "tts" /\ SocketClose(s))
    \/ (fetchesInFlight < MaxInFlight /\ PollTick)
    \/ \E body \in RestBodies, t \in Time :
          (Len(received) < MaxMsgs /\ PollResponse(body, t))
    \/ (Len(streams) + mediaRequests < MaxStreams /\ StartRecordingClick)
    \/ MediaGranted
    \/ \E ok \in BOOLEAN : PostResponse(ok)

SpecRest == Init /\ [][NextRest]_vars

\* C16, as stated: a 5xx response on a REST fallback path shows a toast, be
\* it to the POST of sendMessage or to the GET of the polling loop (whose 500
\* response carries the body ErrorBody).
C16_ServerErrorIsShown ==
    [][(/\ Len(received') = Len(received) + 1
        /\ received'[Len(received')].via = "poll"
        /\ received'[Len(received')].text = ErrorBody)
       => (toast' # "none" /\ OneMoreToast)]_vars


---------------------------------------------------------------------------
(* The transcript log under every kind of event *)

\* The control messages of one run.
MaxLogSent == 1

\* The first transcription socket may open, carry messages and close; every
\* other connection is refused, so the ceiling is reached and the
\* transcripts are polled. The user records or starts a stream along the way.
NextLog ==
    \/ Mount
    \/ ReconnectTimer
    \/ \E s \in Sockets : (s = 1 /\ SocketOpen(s))
    \/ \E s \in Sockets : (s = 1 /\ SocketClose(s))
    \/ \E s \in Sockets :
          ((\A r \in 1..(s - 1) : sockets[r].readyState = "CLOSED") /\ SocketFail(s))
    \/ \E s \in Sockets :
          (Len(received) < MaxMsgs /\ OnMessage(s, Final, 1))
    \/ (fetchesInFlight < MaxInFlight /\ PollTick)
    \/ (Len(received) < MaxMsgs /\ PollResponse(Interim, 1))
    \/ (Len(sent) + mediaRequests < MaxLogSent /\ StartRecordingClick)
    \/ MediaGranted
    \/ StopRecordingClick
    \/ \E value \in {"microphone", "rtsp"} : SetInputType(value)
    \/ handleStreamUrlChange("example.com/stream")
    \/ (Len(sent) < MaxLogSent /\ handleStartStreaming)

SpecLog == Init /\ [][NextLog]_vars

IsPrefix(s, t) == Len(s) <= Len(t) /\ SubSeq(t, 1, Len(s)) = s

\* C17: the transcript log only grows at its end: in every step the log
\* before is a prefix of the log after (so every earlier log is a prefix of
\* every later one), and the log changes only in a step that dispatches a
\* transcription message, received on a socket or fetched by the poll.
C17_LogIsAppendOnly ==
    [][/\ IsPrefix(transcripts, transcripts')
       /\ transcripts' # transcripts =>
             /\ Len(received') = Len(received) + 1
             /\ UNCHANGED <<pageVars, connVars, capVars, uiVars, audioVars, toast>> ]_vars

\* C17 witness: a message dispatched on the socket and, the connection lost
\* and the ceiling reached, a polled one: the log holds the records of the
\* first followed by those of the second, and a control message was sent.
C17_Witness ==
    /\ Len(received) = 2
    /\ received[1].via = "socket"
    /\ received[2].via = "poll"
    /\ Len(transcripts) > Len(handleTranscriptionMessage(received[2].text, 1).records)
    /\ Len(handleTranscriptionMessage(received[2].text, 1).records) > 0
    /\ Len(sent) = 1


---------------------------------------------------------------------------
(* Sockets, status and polling loops *)

Alive(s) == sockets[s].readyState \in {"CONNECTING", "OPEN"}

\* C18, as stated: of each channel at most one socket is connecting or open.
C18_OneLiveSocketPerChannel ==
    \A s, r \in Sockets :
       (Alive(s) /\ Alive(r) /\ sockets[s].channel = sockets[r].channel) => s = r

\* C19, as stated, for the mounted component: while the status is connected,
\* the socket in socketRef is open.
C19_ConnectedMeansCurrentOpen ==
    (phase = "mounted" /\ connectionStatus = "connected") =>
       (socketRef # 0 /\ sockets[socketRef].readyState = "OPEN")

\* C20, as stated: at most one polling interval is active.
C20_OnePollingInterval == pollIntervals <= 1

====
